---- MODULE Spec2Model ----
(***************************************************************************)
(* A model of the canvas shape editor: Rectangle (src/unnamed/part_000),   *)
(* Polygon (src/Polygon.ts) and Canvas (src/Canvas.ts).                     *)
(*                                                                         *)
(* The state is the Canvas object's fields plus the canvas element's       *)
(* style.cursor and the position of the pointer; there is one action per   *)
(* event handler (mousedown, mousemove, mouseup) and per public method     *)
(* (clear, delete, setSelected).  Array indices are 0-based as in the      *)
(* source; a sequence element i of the source is element i + 1 here.       *)
(***************************************************************************)
EXTENDS Integers, Sequences, FiniteSets, TLC

(***************************************************************************)
(* Bounds of the model.  The handlers are checked in several scenes: a     *)
(* scene is the set of positions the pointer visits, the window the        *)
(* coordinates of the shapes stay in, and the capacity of the collection   *)
(* and of the polygon buffer.                                              *)
(***************************************************************************)
\* the editing scene (Spec)
MaxGeoms == 3
MaxCircles == 1
MaxCoord == 20

(***************************************************************************)
(* Program constants.                                                      *)
(***************************************************************************)
\* Canvas.radius, the radius of a polygon's vertex circle
radius == 5
\* the width of the edge band of a rectangle in mouseStyle
distance == 10

VARIABLES
    geoms,          \* Canvas.geoms: the shape collection
    circles,        \* Canvas.circles: the in-progress polygon buffer
    isDraw,         \* Canvas.isDraw
    isDrag,         \* Canvas.isDrag
    isRectChange,   \* Canvas.isRectChange
    startX,         \* Canvas.startX
    startY,         \* Canvas.startY
    index,          \* Canvas.index: the target shape, -1 for none
    circleIndex,    \* Canvas.circleIndex: the target vertex, -1 for none
    placement,      \* Canvas.placement
    oldRect,        \* Canvas.oldRect: the rect snapshot of a resize gesture
    borderColor,    \* Canvas.borderColor, as its hue ("" before the first)
    cursor,         \* $canvas.style.cursor
    onStart,        \* whether Canvas.onStart holds the callback
    mouse,          \* offsetX, offsetY of the last pointer event
    lastEvent,      \* the handler or method that ran last
    thrown,         \* whether it ended in an uncaught TypeError
    fired,          \* the notifications it fired, in order
    args            \* the arguments of the last call of Rectangle.setPointsRect
                    \* made on a rectangle directly (<< >> in the editor)

vars == <<geoms, circles, isDraw, isDrag, isRectChange, startX, startY, index,
          circleIndex, placement, oldRect, borderColor, cursor, onStart, mouse,
          lastEvent, thrown, fired, args>>

(***************************************************************************)
(* Rectangle (src/unnamed/part_000) and Polygon (src/Polygon.ts).          *)
(***************************************************************************)
Pt(x, y) == [x |-> x, y |-> y]

(***************************************************************************)
(* JavaScript numbers.  A coordinate is an integer or NaN; undefined, read *)
(* from a field an object lacks, turns into NaN in every sum, difference   *)
(* and comparison the source makes, and is modelled as NaN.                *)
(***************************************************************************)
\* NaN: a number no coordinate or sum of coordinates of the model equals
NaN == 0 - 1000000
\* a + b
Add(a, b) == IF a = NaN \/ b = NaN THEN NaN ELSE a + b
\* a - b
Sub(a, b) == IF a = NaN \/ b = NaN THEN NaN ELSE a - b
\* a < b, a <= b, a > b, a >= b: false when either is NaN
Lt(a, b) == a # NaN /\ b # NaN /\ a < b
Le(a, b) == a # NaN /\ b # NaN /\ a <= b
Gt(a, b) == a # NaN /\ b # NaN /\ a > b
Ge(a, b) == a # NaN /\ b # NaN /\ a >= b

\* A plausible slip of setPointsRect: the corners are taken as given.
setPointsRectNoSwap(sX, sY, eX, eY) ==
    [points |-> << Pt(sX, sY), Pt(eX, sY), Pt(eX, eY), Pt(sX, eY) >>,
     rect   |-> [x |-> sX, y |-> sY,
                 width |-> Sub(eX, sX), height |-> Sub(eY, sY)]]

\* Rectangle.setPointsRect: the points and the rect of the two corners.
setPointsRect(sX, sY, eX, eY) ==
    LET minX == IF Lt(sX, eX) THEN sX ELSE eX
        maxX == IF Lt(sX, eX) THEN eX ELSE sX
        minY == IF Lt(sY, eY) THEN sY ELSE eY
        maxY == IF Lt(sY, eY) THEN eY ELSE sY
    IN  [points |-> << Pt(minX, minY), Pt(maxX, minY),
                       Pt(maxX, maxY), Pt(minX, maxY) >>,
         rect   |-> [x |-> minX, y |-> minY,
                     width |-> Sub(maxX, minX), height |-> Sub(maxY, minY)]]

\* new Rectangle(startX, startY, endX, endY, color): selected defaults to false.
Rectangle(sX, sY, eX, eY, color) ==
    LET pr == setPointsRect(sX, sY, eX, eY)
    IN  [shape |-> "rectangle", points |-> pr.points, rect |-> pr.rect,
         color |-> color, selected |-> FALSE]

\* geom.setPointsRect(...) on an existing rectangle: color and selected stay.
WithPointsRect(geom, sX, sY, eX, eY) ==
    LET pr == setPointsRect(sX, sY, eX, eY)
    IN  [geom EXCEPT !.points = pr.points, !.rect = pr.rect]

\* new Polygon(points, color): the constructor stores selected = false.
Polygon(points, color) ==
    [shape |-> "polygon", points |-> points, color |-> color, selected |-> FALSE]

(***************************************************************************)
(* Canvas.mouseStyle: the hit test.                                        *)
(***************************************************************************)
\* The nine zones of a rectangle, in the order mouseStyle tests them.
Zones ==
    << [cursor |-> "e-resize",  placement |-> "right"],
       [cursor |-> "se-resize", placement |-> "right-bottom"],
       [cursor |-> "ne-resize", placement |-> "right-top"],
       [cursor |-> "s-resize",  placement |-> "bottom"],
       [cursor |-> "n-resize",  placement |-> "top"],
       [cursor |-> "w-resize",  placement |-> "left"],
       [cursor |-> "sw-resize", placement |-> "left-bottom"],
       [cursor |-> "nw-resize", placement |-> "left-top"],
       [cursor |-> "move",      placement |-> ""] >>

\* The condition of zone k (of Zones) for the pointer (eX, eY) and the rect r.
InZone(k, r, eX, eY) ==
    LET maxX    == Add(r.x, r.width)
        maxY    == Add(r.y, r.height)
        rightX  == Gt(eX, Sub(maxX, distance)) /\ Le(eX, maxX)
        rightY  == Ge(eY, Add(r.y, distance)) /\ Le(eY, Sub(maxY, distance))
        rightBottomY == Gt(eY, Sub(maxY, distance)) /\ Le(eY, maxY)
        rightTopY    == Ge(eY, r.y) /\ Lt(eY, Add(r.y, distance))
        bottomX == Ge(eX, Add(r.x, distance)) /\ Le(eX, Sub(maxX, distance))
        bottomY == Gt(eY, Sub(maxY, distance)) /\ Le(eY, maxY)
        topY    == Ge(eY, r.y) /\ Lt(eY, Add(r.y, distance))
        leftX   == Ge(eX, r.x) /\ Lt(eX, Add(r.x, distance))
    IN  CASE k = 1 -> rightX /\ rightY
          [] k = 2 -> rightX /\ rightBottomY
          [] k = 3 -> rightX /\ rightTopY
          [] k = 4 -> bottomX /\ bottomY
          [] k = 5 -> bottomX /\ topY
          [] k = 6 -> leftX /\ rightY
          [] k = 7 -> leftX /\ bottomY
          [] k = 8 -> leftX /\ rightTopY
          [] k = 9 -> bottomX /\ rightY

\* What the hit test resolves to when nothing matches (lines 483-486).
NoHit == [cursor |-> "crosshair", placement |-> "", index |-> -1, circleIndex |-> -1]

\* The rectangle branch for shape i (0-based): the first zone that holds.
RectHit(i, r, eX, eY) ==
    LET hits == {k \in 1..9 : InZone(k, r, eX, eY)}
    IN  IF hits = {} THEN NoHit
        ELSE LET k == CHOOSE z \in hits : \A w \in hits : z <= w
             IN  [cursor |-> Zones[k].cursor, placement |-> Zones[k].placement,
                  index |-> i, circleIndex |-> -1]

\* twice the signed area of the triangle a, b, p
Cross(a, b, p) == (b.x - a.x) * (p.y - a.y) - (p.x - a.x) * (b.y - a.y)

Min2(a, b) == IF a < b THEN a ELSE b
Max2(a, b) == IF a < b THEN b ELSE a

\* p lies on the segment a-b
OnSegment(a, b, p) ==
    /\ Cross(a, b, p) = 0
    /\ Min2(a.x, b.x) <= p.x /\ p.x <= Max2(a.x, b.x)
    /\ Min2(a.y, b.y) <= p.y /\ p.y <= Max2(a.y, b.y)

\* the edge that leaves vertex j of the closed path (1-based)
EdgeEnd(points, j) == points[(j % Len(points)) + 1]

\* p lies on the closed path through points
OnPath(points, p) ==
    \E j \in 1..Len(points) : OnSegment(points[j], EdgeEnd(points, j), p)

\* the winding number of the closed path around p, one edge after another
RECURSIVE Winding(_, _, _)
Winding(points, p, j) ==
    IF j > Len(points) THEN 0
    ELSE LET a == points[j]
             b == EdgeEnd(points, j)
             w == IF a.y <= p.y
                  THEN (IF b.y > p.y /\ Cross(a, b, p) > 0 THEN 1 ELSE 0)
                  ELSE (IF b.y <= p.y /\ Cross(a, b, p) < 0 THEN -1 ELSE 0)
         IN  w + Winding(points, p, j + 1)

\* context.isPointInPath after Polygon.drawLines(points): the nonzero winding
\* rule; for a point on the path itself the canvas answers onEdge.
isPointInPath(points, p, onEdge) ==
    IF OnPath(points, p) THEN onEdge ELSE Winding(points, p, 1) # 0

\* (e.offsetX - point.x)^2 + (e.offsetY - point.y)^2
Dist2(a, b) == (a.x - b.x) * (a.x - b.x) + (a.y - b.y) * (a.y - b.y)

\* The polygon branch for shape i from vertex j (0-based) on: the loop of
\* lines 621-639, which tests vertex j and then the path, in every round.
RECURSIVE PolyHit(_, _, _, _, _)
PolyHit(i, points, p, onEdge, j) ==
    IF j >= Len(points) THEN NoHit
    ELSE IF Dist2(p, points[j + 1]) < radius * radius
         THEN [cursor |-> "default", placement |-> "", index |-> i, circleIndex |-> j]
    ELSE IF isPointInPath(points, p, onEdge)
         THEN [cursor |-> "move", placement |-> "", index |-> i, circleIndex |-> -1]
    ELSE PolyHit(i, points, p, onEdge, j + 1)

\* The loop of mouseStyle over the shapes from i (0-based) on; onEdges[i + 1] is
\* the canvas's answer for a pointer on the path of shape i.
RECURSIVE HitFrom(_, _, _, _)
HitFrom(gs, p, onEdges, i) ==
    IF i >= Len(gs) THEN NoHit
    ELSE LET g == gs[i + 1]
             h == IF g.shape = "rectangle"
                  THEN RectHit(i, g.rect, p.x, p.y)
                  ELSE PolyHit(i, g.points, p, onEdges[i + 1], 0)
         IN  IF h.index # -1 THEN h ELSE HitFrom(gs, p, onEdges, i + 1)

\* Canvas.mouseStyle(e): cursor, placement, index and circleIndex for pointer p.
mouseStyle(gs, p, onEdges) == HitFrom(gs, p, onEdges, 0)

(***************************************************************************)
(* Canvas: helpers of the handlers.                                        *)
(***************************************************************************)
\* the hues randomColor draws from (Math.floor(Math.random() * 361))
Hues == {30, 90}

\* `hsl(${H}, 100%, 50%)`
Hsl(h) == IF h = 30 THEN "hsl(30, 100%, 50%)" ELSE "hsl(90, 100%, 50%)"

\* Number(color.match(/\d+/)[0]), 0 when the color holds no digits
HueOf(color) ==
    CASE color = "hsl(30, 100%, 50%)" -> 30
      [] color = "hsl(90, 100%, 50%)" -> 90
      [] OTHER -> 0

Abs(n) == IF n < 0 THEN -n ELSE n

\* Canvas.randomColor: the colors the loop can end with.
randomColor(color) == {Hsl(h) : h \in {g \in Hues : ~(Abs(HueOf(color) - g) < 60)}}

\* a notification, with what the callback is handed
Note(cb, arg) == [cb |-> cb, arg |-> arg]

\* this.geoms[i] is an object (not undefined)
HasGeom(gs, i) == 0 <= i /\ i < Len(gs)

\* the selected flags of the collection, in order
Flags(gs) == [k \in 1..Len(gs) |-> gs[k].selected]

\* A plausible slip of setSelected: the loop that clears the flags is missing.
SelectedAlso(gs, i) == [k \in 1..Len(gs) |-> [gs[k] EXCEPT !.selected = @ \/ (k = i + 1)]]

\* Canvas.setSelected(i) for an existing shape i: the loop and the assignment.
Selected(gs, i) == [k \in 1..Len(gs) |-> [gs[k] EXCEPT !.selected = (k = i + 1)]]

\* the loop of setSelected alone, which runs before a missing shape is read
Deselected(gs) == [k \in 1..Len(gs) |-> [gs[k] EXCEPT !.selected = FALSE]]

\* Array.prototype.findIndex(item => item.selected), scanning from index i
RECURSIVE FindSelected(_, _)
FindSelected(gs, i) ==
    IF i >= Len(gs) THEN -1
    ELSE IF gs[i + 1].selected THEN i
    ELSE FindSelected(gs, i + 1)

\* Canvas.getSelectedIndex
getSelectedIndex(gs) == FindSelected(gs, 0)

\* A plausible slip of delete: the last shape goes, whatever the index.
SplicedLast(gs, i) == [k \in 1..(Len(gs) - 1) |-> gs[k]]

\* this.geoms.splice(i, 1) for an existing shape i
Spliced(gs, i) == [k \in 1..(Len(gs) - 1) |-> IF k <= i THEN gs[k] ELSE gs[k + 1]]

\* this.geoms.splice(i, 1) for an index i that names no shape: nothing goes
\* from i >= length on; a negative i counts from the end, and from the start
\* when it reaches beyond it
SplicedOutside(gs, i) ==
    IF i >= 0 \/ gs = << >> THEN gs
    ELSE LET start == IF Len(gs) + i < 0 THEN 0 ELSE Len(gs) + i
         IN  Spliced(gs, start)

\* every coordinate of the collection is NaN or within lo .. hi
InRange(n, lo, hi) == n = NaN \/ (lo <= n /\ n <= hi)
AllInRange(gs, lo, hi) ==
    \A k \in 1..Len(gs) : \A j \in 1..Len(gs[k].points) :
        InRange(gs[k].points[j].x, lo, hi) /\ InRange(gs[k].points[j].y, lo, hi)

\* A plausible slip of dragging: the moved rectangle is pushed as a new shape
\* and the one it was made from stays.
draggingClones(gs, idx, ci, mX, mY) ==
    IF ~HasGeom(gs, idx) \/ gs[idx + 1].shape # "rectangle"
    THEN [geoms |-> gs, thrown |-> ~HasGeom(gs, idx), fired |-> << >>]
    ELSE LET g == gs[idx + 1]
             x == Add(g.rect.x, mX)
             y == Add(g.rect.y, mY)
             moved == WithPointsRect(g, x, y, Add(x, g.rect.width),
                                             Add(y, g.rect.height))
         IN  [geoms |-> Append(gs, moved), thrown |-> FALSE,
              fired |-> << Note("onDragging", idx) >>]

\* A plausible slip of dragging: a rectangle's first corner follows the pointer,
\* the opposite corner stays.
draggingCorner(gs, idx, ci, mX, mY) ==
    IF ~HasGeom(gs, idx) \/ gs[idx + 1].shape # "rectangle"
    THEN [geoms |-> gs, thrown |-> ~HasGeom(gs, idx), fired |-> << >>]
    ELSE LET g == gs[idx + 1]
             moved == WithPointsRect(g, Add(g.rect.x, mX), Add(g.rect.y, mY),
                                     Add(g.rect.x, g.rect.width),
                                     Add(g.rect.y, g.rect.height))
         IN  [geoms |-> [gs EXCEPT ![idx + 1] = moved], thrown |-> FALSE,
              fired |-> << Note("onDragging", idx) >>]

(***************************************************************************)
(* Canvas.dragging and Canvas.rectResize.                                  *)
(***************************************************************************)
\* Canvas.dragging(e) with movement (mX, mY): the collection it leaves, whether
\* it ended in a TypeError, and the notifications it fired.
dragging(gs, idx, ci, mX, mY) ==
    IF ~HasGeom(gs, idx)
    THEN [geoms |-> gs, thrown |-> TRUE, fired |-> << >>]
    ELSE LET g == gs[idx + 1] IN
         IF g.shape = "rectangle"
         THEN LET x == Add(g.rect.x, mX)
                  y == Add(g.rect.y, mY)
                  moved == WithPointsRect(g, x, y, Add(x, g.rect.width),
                                                  Add(y, g.rect.height))
              IN  [geoms |-> [gs EXCEPT ![idx + 1] = moved], thrown |-> FALSE,
                   fired |-> << Note("onDragging", idx) >>]
         ELSE IF ci >= 0
              THEN IF ci >= Len(g.points)
                   THEN [geoms |-> gs, thrown |-> TRUE, fired |-> << >>]
                   ELSE LET pt == g.points[ci + 1]
                            moved == [g EXCEPT !.points[ci + 1] =
                                                 Pt(pt.x + mX, pt.y + mY)]
                        IN  [geoms |-> [gs EXCEPT ![idx + 1] = moved],
                             thrown |-> FALSE,
                             fired |-> << Note("onChangeSize", << idx, ci >>) >>]
              ELSE LET moved == [g EXCEPT !.points =
                                     [j \in 1..Len(g.points) |->
                                         Pt(g.points[j].x + mX, g.points[j].y + mY)]]
                   IN  [geoms |-> [gs EXCEPT ![idx + 1] = moved], thrown |-> FALSE,
                        fired |-> << Note("onDragging", idx) >>]

\* A plausible slip of rectResize: the branches set the cursor of a drag.
BranchMoveCursor(cond, cur, sX, sY, eX, eY) ==
    [cond |-> cond, cursor |-> "move", sX |-> sX, sY |-> sY, eX |-> eX, eY |-> eY]

\* A plausible slip of rectResize: every branch sets the cursor of the first.
BranchSameCursor(cond, cur, sX, sY, eX, eY) ==
    [cond |-> cond, cursor |-> "se-resize", sX |-> sX, sY |-> sY, eX |-> eX, eY |-> eY]

\* A plausible slip of rectResize: the test for crossing is inverted.
BranchInverted(cond, cur, sX, sY, eX, eY) ==
    [cond |-> ~cond, cursor |-> cur, sX |-> sX, sY |-> sY, eX |-> eX, eY |-> eY]

\* one branch of rectResize: its condition, the cursor it sets and the corners
\* it hands to setPointsRect
Branch(cond, cur, sX, sY, eX, eY) ==
    [cond |-> cond, cursor |-> cur, sX |-> sX, sY |-> sY, eX |-> eX, eY |-> eY]

\* The branches of rectResize for placement pl, in source order: old is the
\* snapshot, r the rect read at line 306, e the pointer, (mX, mY) its movement.
ResizeBranches(pl, old, r, e, mX, mY) ==
    LET endX == Add(old.x, old.width)
        endY == Add(old.y, old.height)
        xGe  == Ge(e.x, old.x)
        xLt  == Lt(e.x, old.x)
        yGe  == Ge(e.y, old.y)
        yLt  == Lt(e.y, old.y)
        xLe  == Le(e.x, endX)
        xGt  == Gt(e.x, endX)
        yLe  == Le(e.y, endY)
        yGt  == Gt(e.y, endY)
        rX   == Add(Add(old.x, r.width), mX)       \* oldRect.x + width + movementX
        bY   == Add(Add(old.y, r.height), mY)      \* oldRect.y + height + movementY
        lX   == Add(r.x, mX)                       \* x + movementX
        tY   == Add(r.y, mY)                       \* y + movementY
        maxX == Add(r.x, r.width)                  \* x + width
        maxY == Add(r.y, r.height)                 \* y + height
    IN  CASE pl = "right" ->
               << Branch(xGe, "e-resize", old.x, r.y, rX, maxY),
                  Branch(~xGe, "w-resize", e.x, r.y, old.x, maxY) >>
          [] pl = "bottom" ->
               << Branch(yGe, "s-resize", r.x, old.y, maxX, bY),
                  Branch(~yGe, "n-resize", r.x, e.y, maxX, old.y) >>
          [] pl = "left" ->
               << Branch(xLe, "w-resize", lX, r.y, endX, maxY),
                  Branch(~xLe, "e-resize", endX, r.y, e.x, maxY) >>
          [] pl = "top" ->
               << Branch(yLe, "n-resize", r.x, tY, maxX, endY),
                  Branch(~yLe, "s-resize", r.x, endY, maxX, e.y) >>
          [] pl = "right-bottom" ->
               << Branch(xGe /\ yGe, "se-resize", old.x, old.y, rX, bY),
                  Branch(xGe /\ yLt, "ne-resize", old.x, e.y, rX, old.y),
                  Branch(xLt /\ yGe, "sw-resize", e.x, old.y, old.x, bY),
                  Branch(xLt /\ yLt, "nw-resize", e.x, e.y, old.x, old.y) >>
          [] pl = "right-top" ->
               << Branch(xGe /\ yLe, "ne-resize", old.x, tY, rX, endY),
                  Branch(xGe /\ yGt, "se-resize", old.x, endY, rX, e.y),
                  Branch(xLt /\ yLe, "nw-resize", e.x, tY, old.x, endY),
                  Branch(xLt /\ yGt, "sw-resize", e.x, e.y, old.x, endY) >>
          [] pl = "left-bottom" ->
               << Branch(xLe /\ yGe, "sw-resize", lX, old.y, endX, bY),
                  Branch(xLe /\ yLt, "nw-resize", lX, e.y, endX, old.y),
                  Branch(xGt /\ yGe, "se-resize", endX, old.y, e.x, bY),
                  Branch(xGt /\ yLt, "ne-resize", endX, old.y, e.x, e.y) >>
          [] pl = "left-top" ->
               << Branch(xLe /\ yLe, "nw-resize", lX, tY, endX, endY),
                  Branch(xLe /\ yGt, "sw-resize", lX, endY, endX, e.y),
                  Branch(xGt /\ yLe, "ne-resize", endX, tY, e.x, endY),
                  Branch(xGt /\ yGt, "se-resize", endX, endY, e.x, e.y) >>
          [] OTHER -> << >>

\* Canvas.rectResize(e): the collection and the cursor it leaves, whether it
\* ended in a TypeError, and the notifications it fired.  The branches of one
\* placement read only the snapshot, the event and the rect read before the
\* switch, so of those whose condition holds the last one decides.
rectResize(gs, idx, pl, old, e, mX, mY, cur) ==
    IF ~HasGeom(gs, idx)
    THEN [geoms |-> gs, cursor |-> cur, thrown |-> FALSE, fired |-> << >>]
    ELSE LET g == gs[idx + 1] IN
         IF g.shape # "rectangle"
         THEN [geoms |-> gs, cursor |-> cur, thrown |-> TRUE, fired |-> << >>]
         ELSE LET bs    == ResizeBranches(pl, old, g.rect, e, mX, mY)
                  taken == {k \in 1..Len(bs) : bs[k].cond}
                  note  == << Note("onChangeSize", << idx, -1 >>) >>
              IN  IF taken = {}
                  THEN [geoms |-> gs, cursor |-> cur, thrown |-> FALSE,
                        fired |-> note]
                  ELSE LET b == bs[CHOOSE k \in taken : \A m \in taken : m <= k]
                           resized == WithPointsRect(g, b.sX, b.sY, b.eX, b.eY)
                       IN  [geoms |-> [gs EXCEPT ![idx + 1] = resized],
                            cursor |-> b.cursor, thrown |-> FALSE, fired |-> note]

(***************************************************************************)
(* The state after construction, with a config that sets every callback.   *)
(* No pointer event has reached the canvas yet: style.cursor is "".        *)
(***************************************************************************)
NoRect == [x |-> -1, y |-> -1, width |-> -1, height |-> -1]

\* the fields of a Canvas that has seen no pointer event
Idle ==
    /\ circles = << >>
    /\ isDraw = FALSE
    /\ isDrag = FALSE
    /\ isRectChange = FALSE
    /\ startX = -1
    /\ startY = -1
    /\ index = -1
    /\ circleIndex = -1
    /\ placement = ""
    /\ oldRect = NoRect
    /\ borderColor = ""
    /\ cursor = ""
    /\ onStart = TRUE
    /\ lastEvent = "init"
    /\ thrown = FALSE
    /\ fired = << >>

\* an empty editor, the pointer resting on one of the given positions
InitAt(points) ==
    /\ Idle
    /\ geoms = << >>
    /\ mouse \in points
    /\ args = << >>

\* the pointer positions of the editing scene
Grid == {Pt(0, 0), Pt(20, 20), Pt(20, 0)}
\* the pointer moves over the empty canvas, and later only with the button
\* down on the crosshair
Visits == IF geoms = << >> \/ isDraw THEN Grid ELSE {}

Init == InitAt({Pt(0, 0)})

(***************************************************************************)
(* Canvas.mousedown, at the pointer's position.                            *)
(***************************************************************************)
MouseResize == {"e-resize", "se-resize", "s-resize", "sw-resize",
                "w-resize", "nw-resize", "n-resize", "ne-resize"}

\* Object.assign({}, geom.rect): a polygon has no rect, and the copy no fields
RectCopy(g) ==
    IF g.shape = "rectangle" THEN g.rect
    ELSE [x |-> NaN, y |-> NaN, width |-> NaN, height |-> NaN]

mousedown ==
    /\ startX' = mouse.x
    /\ startY' = mouse.y
    /\ lastEvent' = "mousedown"
    /\ UNCHANGED args
    /\ fired' = << >>
    /\ IF cursor = "crosshair"
       THEN /\ isDraw' = TRUE
            /\ IF circles = << >>
               THEN borderColor' \in randomColor(borderColor)
               ELSE borderColor' = borderColor
            /\ thrown' = FALSE
            /\ UNCHANGED << isDrag, isRectChange, oldRect >>
       ELSE IF cursor \in {"move", "default"}
       THEN /\ isDrag' = TRUE
            /\ thrown' = FALSE
            /\ UNCHANGED << isDraw, isRectChange, oldRect, borderColor >>
       ELSE IF cursor \in MouseResize
       THEN /\ isRectChange' = TRUE
            /\ IF HasGeom(geoms, index)
               THEN oldRect' = RectCopy(geoms[index + 1]) /\ thrown' = FALSE
               ELSE oldRect' = oldRect /\ thrown' = TRUE
            /\ UNCHANGED << isDraw, isDrag, borderColor >>
       ELSE /\ thrown' = FALSE
            /\ UNCHANGED << isDraw, isDrag, isRectChange, oldRect, borderColor >>
    /\ UNCHANGED << geoms, circles, index, circleIndex, placement, cursor,
                    onStart, mouse >>

(***************************************************************************)
(* Canvas.mousemove to the position e; movementX and movementY are the     *)
(* differences to the position of the event before.                        *)
(***************************************************************************)
mousemove(e, lo, hi) ==
    LET mX == e.x - mouse.x
        mY == e.y - mouse.y
    IN
    /\ mouse' = e
    /\ lastEvent' = "mousemove"
    /\ UNCHANGED args
    /\ IF isDraw /\ circles = << >>
       THEN \* drawingRectangle
            LET starts == onStart /\ (startX # e.x \/ startY # e.y) IN
            /\ onStart' = IF starts THEN FALSE ELSE onStart
            /\ fired' = (IF starts THEN << Note("onStart", "rectangle") >>
                         ELSE << >>) \o << Note("onDrawing", "") >>
            /\ thrown' = FALSE
            /\ UNCHANGED << geoms, cursor, placement, index, circleIndex >>
       ELSE IF circles # << >>
       THEN /\ fired' = << Note("onDrawing", "") >>
            /\ thrown' = FALSE
            /\ UNCHANGED << geoms, cursor, placement, index, circleIndex, onStart >>
       ELSE IF isDrag
       THEN LET d == dragging(geoms, index, circleIndex, mX, mY) IN
            /\ geoms' = d.geoms
            /\ thrown' = d.thrown
            /\ fired' = d.fired
            /\ UNCHANGED << cursor, placement, index, circleIndex, onStart >>
       ELSE IF isRectChange
       THEN LET d == rectResize(geoms, index, placement, oldRect, e, mX, mY, cursor) IN
            /\ geoms' = d.geoms
            /\ cursor' = d.cursor
            /\ thrown' = d.thrown
            /\ fired' = d.fired
            /\ UNCHANGED << placement, index, circleIndex, onStart >>
       ELSE \E onEdges \in [1..Len(geoms) -> BOOLEAN] :
            LET h == mouseStyle(geoms, e, onEdges) IN
            /\ cursor' = h.cursor
            /\ placement' = h.placement
            /\ index' = h.index
            /\ circleIndex' = h.circleIndex
            /\ thrown' = FALSE
            /\ fired' = << >>
            /\ UNCHANGED << geoms, onStart >>
    /\ AllInRange(geoms', lo, hi)
    /\ UNCHANGED << circles, isDraw, isDrag, isRectChange, startX, startY,
                    oldRect, borderColor >>

(***************************************************************************)
(* Canvas.mouseup, at the pointer's position.                              *)
(***************************************************************************)
\* A plausible slip of drawingPolygonCircle: the closing click becomes a vertex.
drawingPolygonCircleKeepsClick(gs, cs, e, color, armed) ==
    IF cs = << >>
    THEN [geoms |-> gs, circles |-> << e >>,
          fired |-> IF armed THEN << Note("onStart", "polygon") >> ELSE << >>]
    ELSE LET buffer == Append(cs, e) IN
         IF Dist2(cs[1], e) > radius * radius
         THEN [geoms |-> gs, circles |-> buffer, fired |-> << >>]
         ELSE LET pushed == Append(gs, Polygon(buffer, color))
                  chosen == Selected(pushed, Len(pushed) - 1)
              IN  [geoms |-> chosen, circles |-> << >>,
                   fired |-> << Note("onEnd", Flags(chosen)) >>]

\* Canvas.drawingPolygonCircle(e): the collection and the buffer it leaves and
\* the notifications it fired.  The distance tests compare squares.
drawingPolygonCircle(gs, cs, e, color, armed) ==
    IF cs = << >>
    THEN [geoms |-> gs, circles |-> << e >>,
          fired |-> IF armed THEN << Note("onStart", "polygon") >> ELSE << >>]
    ELSE IF Dist2(cs[1], e) > radius * radius
    THEN [geoms |-> gs, circles |-> Append(cs, e), fired |-> << >>]
    ELSE LET pushed == Append(gs, Polygon(cs, color))
             chosen == Selected(pushed, Len(pushed) - 1)
         IN  [geoms |-> chosen, circles |-> << >>,
              fired |-> << Note("onEnd", Flags(chosen)) >>]

\* A plausible slip of the test of line 800: the buffer is not looked at.
CommitsWithBuffer(draw, sX, sY, e, cs) ==
    draw /\ sX # e.x /\ sY # e.y

\* A plausible slip of the test of line 800: a move on one axis is enough.
CommitsOnEitherAxis(draw, sX, sY, e, cs) ==
    draw /\ (sX # e.x \/ sY # e.y) /\ cs = << >>

\* the test of line 800: the gesture ends in a new rectangle
Commits(draw, sX, sY, e, cs) ==
    draw /\ sX # e.x /\ sY # e.y /\ cs = << >>

\* A plausible slip of the test of line 812: the position is not compared.
PicksWherever(drag, change, sX, sY, e) ==
    drag \/ change

\* the test of line 812: the gesture on a shape ends where it began
Picks(drag, change, sX, sY, e) ==
    (drag \/ change) /\ sX = e.x /\ sY = e.y

mouseup(maxGeoms, maxCircles) ==
    LET e == mouse
        same == startX = e.x /\ startY = e.y
        \* lines 800-805
        commits == Commits(isDraw, startX, startY, e, circles)
        pushed  == Append(geoms, Rectangle(startX, startY, e.x, e.y, borderColor))
        s1 == IF commits
              THEN [geoms |-> Selected(pushed, Len(pushed) - 1),
                    fired |-> << Note("onEnd", Flags(pushed)) >>]
              ELSE [geoms |-> geoms, fired |-> << >>]
        \* lines 807-809
        s2 == IF isDraw /\ same
              THEN drawingPolygonCircle(s1.geoms, circles, e, borderColor, onStart)
              ELSE [geoms |-> s1.geoms, circles |-> circles, fired |-> << >>]
        \* lines 812-815
        picks == Picks(isDrag, isRectChange, startX, startY, e)
        fails == picks /\ ~HasGeom(s2.geoms, index)
        s3 == IF ~picks THEN [geoms |-> s2.geoms, fired |-> << >>]
              ELSE IF fails THEN [geoms |-> Deselected(s2.geoms), fired |-> << >>]
              ELSE [geoms |-> Selected(s2.geoms, index),
                    fired |-> << Note("onClick", index) >>]
    IN
    /\ Len(s3.geoms) <= maxGeoms
    /\ Len(s2.circles) <= maxCircles
    /\ geoms' = s3.geoms
    /\ circles' = s2.circles
    /\ fired' = s1.fired \o s2.fired \o s3.fired
    /\ thrown' = fails
    /\ lastEvent' = "mouseup"
    /\ UNCHANGED args
    /\ IF fails
       THEN UNCHANGED << startX, startY, isDraw, isDrag, isRectChange, onStart >>
       ELSE /\ startX' = -1
            /\ startY' = -1
            /\ isDraw' = FALSE
            /\ isDrag' = FALSE
            /\ isRectChange' = FALSE
            /\ onStart' = TRUE
    /\ UNCHANGED << index, circleIndex, placement, oldRect, borderColor, cursor,
                    mouse >>

\* Canvas.mouseup with callbacks that throw: the handler ends at the first
\* callback it calls, with what it did until then; the note "exception" names
\* that callback.  Not enabled when mouseup calls no callback.
mouseupThrows(maxGeoms, maxCircles) ==
    LET e == mouse
        same == startX = e.x /\ startY = e.y
        commits == Commits(isDraw, startX, startY, e, circles)
        pushed  == Append(geoms, Rectangle(startX, startY, e.x, e.y, borderColor))
        clicks  == isDraw /\ same
        \* drawingPolygonCircle, up to the callback it calls, if any
        d == IF clicks
             THEN drawingPolygonCircle(geoms, circles, e, borderColor, onStart)
             ELSE [geoms |-> geoms, circles |-> circles, fired |-> << >>]
        picks == Picks(isDrag, isRectChange, startX, startY, e) /\ HasGeom(d.geoms, index)
        end == IF commits
               THEN [geoms |-> pushed, circles |-> circles,
                     fired |-> << Note("onEnd", Flags(pushed)),
                                  Note("exception", "onEnd") >>]
               ELSE IF d.fired # << >>
               THEN [geoms |-> d.geoms, circles |-> d.circles,
                     fired |-> d.fired \o << Note("exception", d.fired[1].cb) >>]
               ELSE [geoms |-> Selected(d.geoms, index), circles |-> d.circles,
                     fired |-> << Note("onClick", index),
                                  Note("exception", "onClick") >>]
    IN
    /\ commits \/ d.fired # << >> \/ picks
    /\ Len(end.geoms) <= maxGeoms
    /\ Len(end.circles) <= maxCircles
    /\ geoms' = end.geoms
    /\ circles' = end.circles
    /\ fired' = end.fired
    /\ thrown' = TRUE
    /\ lastEvent' = "mouseup"
    /\ UNCHANGED << startX, startY, isDraw, isDrag, isRectChange, onStart, index,
                    circleIndex, placement, oldRect, borderColor, cursor,
                    mouse, args >>

(***************************************************************************)
(* The public methods, called between two pointer events.                 *)
(***************************************************************************)
\* Canvas.clear()
clear ==
    /\ geoms' = << >>
    /\ circles' = << >>
    /\ isDraw' = FALSE
    /\ isDrag' = FALSE
    /\ startX' = -1
    /\ startY' = -1
    /\ index' = -1
    /\ circleIndex' = -1
    /\ isRectChange' = FALSE
    /\ placement' = ""
    /\ lastEvent' = "clear"
    /\ UNCHANGED args
    /\ thrown' = FALSE
    /\ fired' = << >>
    /\ UNCHANGED << oldRect, borderColor, cursor, onStart, mouse >>

\* Canvas.delete(i) for an existing shape i
delete(i) ==
    /\ HasGeom(geoms, i)
    /\ geoms' = Spliced(geoms, i)
    /\ lastEvent' = "delete"
    /\ UNCHANGED args
    /\ thrown' = FALSE
    /\ fired' = << >>
    /\ UNCHANGED << circles, isDraw, isDrag, isRectChange, startX, startY, index,
                    circleIndex, placement, oldRect, borderColor, cursor,
                    onStart, mouse >>

\* Canvas.setSelected(i) for an existing shape i
setSelected(i) ==
    /\ HasGeom(geoms, i)
    /\ geoms' = Selected(geoms, i)
    /\ lastEvent' = "setSelected"
    /\ UNCHANGED args
    /\ thrown' = FALSE
    /\ fired' = << >>
    /\ UNCHANGED << circles, isDraw, isDrag, isRectChange, startX, startY, index,
                    circleIndex, placement, oldRect, borderColor, cursor,
                    onStart, mouse >>

\* Canvas.delete(i) for an index i that names no shape
deleteOutside(i) ==
    /\ ~HasGeom(geoms, i)
    /\ geoms' = SplicedOutside(geoms, i)
    /\ lastEvent' = "delete"
    /\ thrown' = FALSE
    /\ fired' = << >>
    /\ UNCHANGED << circles, isDraw, isDrag, isRectChange, startX, startY, index,
                    circleIndex, placement, oldRect, borderColor, cursor,
                    onStart, mouse, args >>

\* Canvas.setSelected(i) for an index i that names no shape: the loop has
\* cleared every flag when geoms[i].selected = true ends in a TypeError
setSelectedOutside(i) ==
    /\ ~HasGeom(geoms, i)
    /\ geoms' = Deselected(geoms)
    /\ lastEvent' = "setSelected"
    /\ thrown' = TRUE
    /\ fired' = << >>
    /\ UNCHANGED << circles, isDraw, isDrag, isRectChange, startX, startY, index,
                    circleIndex, placement, oldRect, borderColor, cursor,
                    onStart, mouse, args >>

Next ==
    \/ mousedown
    \/ \E e \in Visits : mousemove(e, 0, MaxCoord)
    \/ mouseup(MaxGeoms, MaxCircles)
    \/ clear
    \/ \E i \in 0..(MaxGeoms - 1) : delete(i)
    \/ \E i \in 0..(MaxGeoms - 1) : setSelected(i)

Spec == Init /\ [][Next]_vars


(***************************************************************************)
(* The resize scene (SpecResize): the pointer draws the box {0,0,100,50},  *)
(* grabs its edges and its body, and is dragged beyond each edge.          *)
(***************************************************************************)
\* the shapes stay within ResizeMargin of the drawn box on either side
ResizeMargin == 100
\* the two corners the box is drawn between
ResizeCorners == {Pt(0, 0), Pt(100, 50)}
\* on the horizontal line through the middle of that box: a point on its
\* left and on its right edge, and a point beyond each
ResizeRow == {Pt(-100, 25), Pt(0, 25), Pt(100, 25), Pt(200, 25)}
\* the same on the vertical line through its middle
ResizeColumn == {Pt(50, -50), Pt(50, 0), Pt(50, 50), Pt(50, 100)}
\* the pointer draws the box, then moves along one of the two lines
ResizeVisits ==
    IF geoms = << >> THEN ResizeCorners
    ELSE IF mouse \in ResizeCorners THEN ResizeRow \cup ResizeColumn
    ELSE IF mouse \in ResizeRow THEN ResizeRow
    ELSE ResizeColumn

InitResize == InitAt({Pt(0, 0)})

NextResize ==
    \/ mousedown
    \/ \E e \in ResizeVisits : mousemove(e, 0 - ResizeMargin, 100 + ResizeMargin)
    \/ mouseup(1, 0)

SpecResize == InitResize /\ [][NextResize]_vars

(***************************************************************************)
(* The crossing scene (SpecCross): the pointer draws the box {0,0,100,50}, *)
(* grabs its right edge at x = 100 and is dragged between x = -20 and      *)
(* x = 150.                                                                *)
(***************************************************************************)
CrossMargin == 90
CrossGrips == {Pt(100, 25), Pt(-20, 25), Pt(150, 25)}
CrossVisits == IF geoms = << >> THEN ResizeCorners ELSE CrossGrips

NextCross ==
    \/ mousedown
    \/ \E e \in CrossVisits : mousemove(e, 0 - CrossMargin, 100 + CrossMargin)
    \/ mouseup(1, 0)

SpecCross == InitResize /\ [][NextCross]_vars

(***************************************************************************)
(* The corner scene (SpecCorner): the pointer draws the box {0,0,100,50},  *)
(* grabs one of its corners and is dragged among points that lie on either *)
(* side of every corner, on both axes; it comes back to the corners while  *)
(* the box is the one that was drawn.                                      *)
(***************************************************************************)
CornerMargin == 50
CornerGrips == {Pt(0, 0), Pt(100, 0), Pt(0, 50), Pt(100, 50)}
CornerField == {Pt(x, y) : x \in {-50, 50, 150}, y \in {-25, 25, 75}}
CornerVisits ==
    IF geoms = << >> THEN ResizeCorners
    ELSE IF isRectChange THEN CornerField
    ELSE IF geoms[1].rect = [x |-> 0, y |-> 0, width |-> 100, height |-> 50]
    THEN CornerGrips
    ELSE {}

NextCorner ==
    \/ mousedown
    \/ \E e \in CornerVisits : mousemove(e, 0 - CornerMargin, 100 + CornerMargin)
    \/ mouseup(1, 0)

SpecCorner == InitResize /\ [][NextCorner]_vars

(***************************************************************************)
(* The hover scene (SpecHover): the pointer draws a box narrower and       *)
(* shorter than the edge band between two of three positions, moves among  *)
(* these positions, over the box and next to it, and clicks or drags       *)
(* there.                                                                  *)
(***************************************************************************)
HoverCoord == 10
HoverGrid == {Pt(0, 0), Pt(3, 4), Pt(5, 2)}

NextHover ==
    \/ mousedown
    \/ \E e \in HoverGrid : mousemove(e, 0, HoverCoord)
    \/ mouseup(1, 0)

SpecHover == InitAt({Pt(0, 0)}) /\ [][NextHover]_vars

(***************************************************************************)
(* The vertex scene (SpecPoly): the pointer draws a shape among three      *)
(* positions, a box or a polygon of up to three vertices, and then moves   *)
(* among three positions of the triangle (0,0), (20,0), (20,20): next to   *)
(* its second vertex and inside, next to its first vertex and inside, and  *)
(* inside away from the vertices.                                          *)
(***************************************************************************)
PolyGeoms == 1
PolyCircles == 3
PolyCoord == 20
PolyGrid == {Pt(0, 0), Pt(20, 0), Pt(20, 20)}
PolyProbes == {Pt(18, 1), Pt(3, 1), Pt(15, 5)}
PolyVisits ==
    IF geoms = << >> \/ isDraw \/ circles # << >> THEN PolyGrid ELSE PolyProbes

NextPoly ==
    \/ mousedown
    \/ \E e \in PolyVisits : mousemove(e, 0, PolyCoord)
    \/ mouseup(PolyGeoms, PolyCircles)

SpecPoly == InitAt({Pt(0, 0)}) /\ [][NextPoly]_vars

(***************************************************************************)
(* The drag scene (SpecDrag): the pointer draws the box {0,0,100,50} and   *)
(* moves among points of its body.                                         *)
(***************************************************************************)
DragMargin == 10
DragGrips == {Pt(50, 25), Pt(60, 30), Pt(50, 30)}
DragVisits == IF geoms = << >> THEN ResizeCorners ELSE DragGrips

NextDrag ==
    \/ mousedown
    \/ \E e \in DragVisits : mousemove(e, 0 - DragMargin, 100 + DragMargin)
    \/ mouseup(1, 0)

SpecDrag == InitResize /\ [][NextDrag]_vars

(***************************************************************************)
(* The polygon scene (SpecDraw): the pointer clicks and draws among three  *)
(* positions, the second at distance radius of the first, the third        *)
(* farther away.                                                           *)
(***************************************************************************)
DrawGeoms == 1
DrawCircles == 3
DrawCoord == 20
DrawGrid == {Pt(0, 0), Pt(3, 4), Pt(20, 20)}
DrawVisits == IF geoms = << >> \/ isDraw \/ circles # << >> THEN DrawGrid ELSE {}

NextDraw ==
    \/ mousedown
    \/ \E e \in DrawVisits : mousemove(e, 0, DrawCoord)
    \/ mouseup(DrawGeoms, DrawCircles)

SpecDraw == InitAt({Pt(0, 0)}) /\ [][NextDraw]_vars

(***************************************************************************)
(* The deletion scene (SpecStale): the pointer draws boxes and polygons    *)
(* between two positions until the collection is full, then hovers at the  *)
(* right edge of the boxes and starts a resize gesture, while shapes are   *)
(* deleted between the pointer events.                                     *)
(***************************************************************************)
StaleGeoms == 3
StaleCircles == 1
StaleCoord == 20
StaleGrid == {Pt(0, 0), Pt(20, 20)}
StaleGrips == {Pt(20, 10)}
StaleVisits ==
    IF geoms = << >> \/ isDraw THEN StaleGrid
    ELSE IF Len(geoms) = StaleGeoms \/ isRectChange THEN StaleGrips
    ELSE {}

NextStale ==
    \/ mousedown
    \/ \E e \in StaleVisits : mousemove(e, 0, StaleCoord)
    \/ mouseup(StaleGeoms, StaleCircles)
    \/ \E i \in 0..(StaleGeoms - 1) : delete(i)

SpecStale == InitAt({Pt(0, 0)}) /\ [][NextStale]_vars

(***************************************************************************)
(* The selection scene (SpecPick): the pointer draws two shapes between    *)
(* two positions, boxes {0,0,20,20} and polygons of the single vertex      *)
(* (0,0), then hovers at that vertex, which is a corner of the boxes, and   *)
(* in the body of the boxes, and clicks or drags there.                    *)
(***************************************************************************)
PickGeoms == 2
PickCircles == 1
PickCoord == 20
PickGrid == {Pt(0, 0), Pt(20, 20)}
PickGrips == {Pt(0, 0), Pt(10, 10)}
PickVisits ==
    IF Len(geoms) < PickGeoms \/ isDraw \/ circles # << >> THEN PickGrid
    ELSE PickGrips

NextPick ==
    \/ mousedown
    \/ \E e \in PickVisits : mousemove(e, 0, PickCoord)
    \/ mouseup(PickGeoms, PickCircles)

SpecPick == InitAt({Pt(0, 0)}) /\ [][NextPick]_vars

(***************************************************************************)
(* The editing scene with gestures on the shapes (SpecEdit): the pointer   *)
(* draws a box or a polygon between two positions, then moves among the    *)
(* body, the right edge and the lower right corner of the box, which is    *)
(* also a vertex of the polygon, while the public methods are called       *)
(* between the pointer events, with indices that name a shape and indices  *)
(* that name none.                                                         *)
(***************************************************************************)
EditGeoms == 1
EditCircles == 1
EditCoord == 20
EditGrid == {Pt(0, 0), Pt(20, 20)}
EditGrips == {Pt(10, 10), Pt(20, 10), Pt(20, 20)}
EditVisits ==
    IF geoms = << >> \/ isDraw THEN EditGrid
    ELSE IF Len(geoms) = EditGeoms \/ isDrag \/ isRectChange THEN EditGrips
    ELSE {}
\* the indices handed to delete and setSelected
EditIndices == (0 - EditGeoms)..EditGeoms

NextEdit ==
    \/ mousedown
    \/ \E e \in EditVisits : mousemove(e, 0, EditCoord)
    \/ mouseup(EditGeoms, EditCircles)
    \/ clear
    \/ \E i \in EditIndices : delete(i)
    \/ \E i \in EditIndices : setSelected(i)
    \/ \E i \in EditIndices : deleteOutside(i)
    \/ \E i \in EditIndices : setSelectedOutside(i)

SpecEdit == InitAt({Pt(0, 0)}) /\ [][NextEdit]_vars

(***************************************************************************)
(* The scene of SpecEdit with the pointer alone and callbacks that may     *)
(* throw when a pointer-up calls them (SpecThrow).                         *)
(***************************************************************************)
NextThrow ==
    \/ mousedown
    \/ \E e \in EditVisits : mousemove(e, 0, EditCoord)
    \/ mouseup(EditGeoms, EditCircles)
    \/ mouseupThrows(EditGeoms, EditCircles)

SpecThrow == InitAt({Pt(0, 0)}) /\ [][NextThrow]_vars

(***************************************************************************)
(* A rectangle on its own (SpecRect): new Rectangle(...) with any two      *)
(* corners, then Rectangle.setPointsRect with any two corners.             *)
(***************************************************************************)
MaxRect == 2
RectCoords == (0 - MaxRect)..MaxRect

InitRect ==
    /\ Idle
    /\ mouse = Pt(0, 0)
    /\ \E sX \in RectCoords, sY \in RectCoords, eX \in RectCoords, eY \in RectCoords :
          /\ geoms = << Rectangle(sX, sY, eX, eY, "") >>
          /\ args = << sX, sY, eX, eY >>

RectangleSetPoints ==
    \E sX \in RectCoords, sY \in RectCoords, eX \in RectCoords, eY \in RectCoords :
       /\ geoms' = << WithPointsRect(geoms[1], sX, sY, eX, eY) >>
       /\ args' = << sX, sY, eX, eY >>
       /\ lastEvent' = "setPointsRect"
       /\ UNCHANGED << circles, isDraw, isDrag, isRectChange, startX, startY,
                       index, circleIndex, placement, oldRect, borderColor,
                       cursor, onStart, mouse, thrown, fired >>

NextRect == RectangleSetPoints

SpecRect == InitRect /\ [][NextRect]_vars

(***************************************************************************)
(* Rectangle.setPointsRect                                                 *)
(***************************************************************************)
\* C1: setPointsRect(x0, y0, x1, y1) leaves rect = {min(x0,x1), min(y0,y1),
\* |x1-x0|, |y1-y0|}, width and height not negative, and as points the four
\* corners of that rect in the order (min-x,min-y), (max-x,min-y),
\* (max-x,max-y), (min-x,max-y); the call with the two corners swapped gives
\* the same rect and the same points.
C1_CanonicalRect ==
    LET x0 == args[1]
        y0 == args[2]
        x1 == args[3]
        y1 == args[4]
        g  == geoms[1]
        r  == g.rect
        swapped == setPointsRect(x1, y1, x0, y0)
    IN  /\ r = [x |-> Min2(x0, x1), y |-> Min2(y0, y1),
                width |-> Abs(x1 - x0), height |-> Abs(y1 - y0)]
        /\ r.width >= 0
        /\ r.height >= 0
        /\ g.points = << Pt(r.x, r.y), Pt(r.x + r.width, r.y),
                         Pt(r.x + r.width, r.y + r.height),
                         Pt(r.x, r.y + r.height) >>
        /\ swapped.rect = r
        /\ swapped.points = g.points

\* the corners were handed over in the opposite order on both axes
C1_Witness ==
    /\ lastEvent = "setPointsRect"
    /\ args[1] > args[3]
    /\ args[2] > args[4]
    /\ geoms[1].rect.x = args[3]
    /\ geoms[1].rect.y = args[4]


(***************************************************************************)
(* Canvas.rectResize                                                       *)
(***************************************************************************)
\* the handler that ran last is rectResize, on a rectangle
Resized ==
    /\ lastEvent = "mousemove"
    /\ isRectChange
    /\ ~isDraw
    /\ ~isDrag
    /\ circles = << >>
    /\ HasGeom(geoms, index)
    /\ geoms[index + 1].shape = "rectangle"
    /\ ~thrown

\* C3: in a resize gesture with placement right on the box {0,0,100,50},
\* once the pointer has been dragged to x = -20, the move back to x = 150
\* leaves the box with x = 0 and width = 150 and the cursor e-resize.
C3_BackAcrossAnchor ==
    [][ (/\ Resized
         /\ placement = "right"
         /\ oldRect = [x |-> 0, y |-> 0, width |-> 100, height |-> 50]
         /\ startX = 100
         /\ mouse.x = -20
         /\ lastEvent' = "mousemove"
         /\ mouse'.x = 150)
        => (/\ geoms'[index + 1].rect.x = 0
            /\ geoms'[index + 1].rect.width = 150
            /\ cursor' = "e-resize") ]_vars

\* C4: after every pointer-move of a resize gesture with a single-edge
\* placement the box has an edge at the anchor of the snapshot on the moving
\* axis (x for right, x + width for left, y for bottom, y + height for top);
\* with the pointer strictly beyond the anchor the box spans on that axis
\* from the pointer to the anchor and the cursor is the opposite direction,
\* and otherwise the cursor is the placement's own direction.
C4_SingleEdgeAnchor ==
    Resized =>
       LET r == geoms[index + 1].rect
           left   == r.x
           right  == r.x + r.width
           top    == r.y
           bottom == r.y + r.height
           endX   == oldRect.x + oldRect.width
           endY   == oldRect.y + oldRect.height
       IN  /\ placement = "right" =>
                /\ left = oldRect.x \/ right = oldRect.x
                /\ IF mouse.x < oldRect.x
                   THEN left = mouse.x /\ right = oldRect.x /\ cursor = "w-resize"
                   ELSE cursor = "e-resize"
           /\ placement = "left" =>
                /\ left = endX \/ right = endX
                /\ IF mouse.x > endX
                   THEN left = endX /\ right = mouse.x /\ cursor = "e-resize"
                   ELSE cursor = "w-resize"
           /\ placement = "bottom" =>
                /\ top = oldRect.y \/ bottom = oldRect.y
                /\ IF mouse.y < oldRect.y
                   THEN top = mouse.y /\ bottom = oldRect.y /\ cursor = "n-resize"
                   ELSE cursor = "s-resize"
           /\ placement = "top" =>
                /\ top = endY \/ bottom = endY
                /\ IF mouse.y > endY
                   THEN top = endY /\ bottom = mouse.y /\ cursor = "s-resize"
                   ELSE cursor = "n-resize"

\* the right edge of {0,0,100,50} was dragged beyond the left edge
C4_Witness ==
    /\ Resized
    /\ placement = "right"
    /\ oldRect = [x |-> 0, y |-> 0, width |-> 100, height |-> 50]
    /\ mouse.x = -100
    /\ geoms[index + 1].rect = [x |-> -100, y |-> 0, width |-> 100, height |-> 50]
    /\ cursor = "w-resize"


(***************************************************************************)
(* Canvas.dragging                                                         *)
(***************************************************************************)
\* the corners of a box moved by (dx, dy)
Translated(points, dx, dy) ==
    [k \in 1..Len(points) |-> Pt(points[k].x + dx, points[k].y + dy)]

\* C10: in a body-drag gesture on a box, a pointer-move with movement
\* (dx, dy) moves the four corner points and the rect's x, y by exactly
\* (dx, dy) and leaves width and height as they were (so that a gesture
\* moves the box by the sum of its movements).
C10_DragTranslates ==
    [][ (/\ isDrag
         /\ ~isDraw
         /\ circles = << >>
         /\ HasGeom(geoms, index)
         /\ geoms[index + 1].shape = "rectangle"
         /\ lastEvent' = "mousemove")
        => LET g  == geoms[index + 1]
               h  == geoms'[index + 1]
               dx == mouse'.x - mouse.x
               dy == mouse'.y - mouse.y
           IN  /\ h.points = Translated(g.points, dx, dy)
               /\ h.rect.x = g.rect.x + dx
               /\ h.rect.y = g.rect.y + dy
               /\ h.rect.width = g.rect.width
               /\ h.rect.height = g.rect.height ]_vars

\* the box {0,0,100,50} was dragged by its body, on both axes
C10_Witness ==
    /\ isDrag
    /\ lastEvent = "mousemove"
    /\ cursor = "move"
    /\ HasGeom(geoms, index)
    /\ fired = << Note("onDragging", index) >>
    /\ geoms[index + 1].rect = [x |-> 10, y |-> 5, width |-> 100, height |-> 50]


(***************************************************************************)
(* Canvas.mouseup: the end of a draw gesture                               *)
(***************************************************************************)
\* the step appended a box spanning the down and the up position
BoxAppended ==
    /\ Len(geoms') = Len(geoms) + 1
    /\ geoms'[Len(geoms')].shape = "rectangle"
    /\ geoms'[Len(geoms')].rect =
          [x |-> Min2(startX, mouse.x), y |-> Min2(startY, mouse.y),
           width |-> Abs(mouse.x - startX), height |-> Abs(mouse.y - startY)]

\* C5: a pointer-up that ends a draw gesture appends a box if and only if
\* the polygon buffer is empty and the up position differs from the down
\* position on both axes; a draw gesture without movement on an empty
\* buffer leaves the collection as it was.
C5_BoxCommit ==
    [][ (isDraw /\ lastEvent' = "mouseup")
        => /\ BoxAppended <=> (circles = << >> /\ mouse.x # startX /\ mouse.y # startY)
           /\ (circles = << >> /\ mouse.x = startX /\ mouse.y = startY)
                 => geoms' = geoms ]_vars

\* a draw gesture between two positions that differ on both axes has ended
C5_Witness ==
    /\ lastEvent = "mouseup"
    /\ geoms # << >>
    /\ geoms[Len(geoms)].shape = "rectangle"
    /\ geoms[Len(geoms)].rect = [x |-> 0, y |-> 0, width |-> 20, height |-> 20]
    /\ fired # << >>
    /\ fired[1].cb = "onEnd"

(***************************************************************************)
(* Canvas.setSelected, Canvas.getSelectedIndex, Canvas.delete              *)
(***************************************************************************)
\* getSelectedIndex() is the lowest index whose flag is set, -1 without one
LowestSelected ==
    LET i == getSelectedIndex(geoms)
    IN  IF \A k \in 1..Len(geoms) : ~geoms[k].selected
        THEN i = -1
        ELSE /\ HasGeom(geoms, i)
             /\ geoms[i + 1].selected
             /\ \A k \in 1..i : ~geoms[k].selected

\* C8: after setSelected(i) with a valid index i the shape at i is selected,
\* no other shape is, and getSelectedIndex() returns i; getSelectedIndex()
\* returns the lowest index whose selected flag is set, or -1 when none is.
C8_SetSelected ==
    [][ /\ \A i \in 0..(MaxGeoms - 1) :
              setSelected(i)
              => /\ \A k \in 0..(Len(geoms') - 1) : geoms'[k + 1].selected <=> (k = i)
                 /\ getSelectedIndex(geoms') = i
        /\ LowestSelected' ]_vars

\* setSelected moved the selection from the shape drawn last to the one before
C8_Witness ==
    /\ lastEvent = "setSelected"
    /\ Len(geoms) = 3
    /\ getSelectedIndex(geoms) = 1
    /\ ~geoms[3].selected

\* C9: delete(i) with a valid index i leaves a collection one shorter, in
\* which the shapes formerly below i keep their index, the shapes formerly at
\* j > i are at j - 1 in the same order, and every remaining shape has the
\* selected flag and the geometry it had.
C9_Delete ==
    [][ \A i \in 0..(MaxGeoms - 1) :
           delete(i)
           => /\ Len(geoms') = Len(geoms) - 1
              /\ \A k \in 0..(Len(geoms) - 1) :
                    /\ k < i => geoms'[k + 1] = geoms[k + 1]
                    /\ k > i => geoms'[k] = geoms[k + 1] ]_vars

\* a delete left two shapes, the selected one first
C9_Witness ==
    /\ lastEvent = "delete"
    /\ Len(geoms) = 2
    /\ geoms[1].selected
    /\ geoms[1].shape # geoms[2].shape


(***************************************************************************)
(* Canvas.drawingPolygonCircle                                             *)
(***************************************************************************)
\* a click on the crosshair ends: pointer-up where the pointer went down
ClickEnds ==
    /\ isDraw
    /\ startX = mouse.x
    /\ startY = mouse.y
    /\ lastEvent' = "mouseup"

\* C6: with n >= 1 buffered vertices, a click at a distance of at most radius
\* from the first of them appends one polygon whose vertices are the n
\* buffered points in drawing order, without the closing click, and empties
\* the buffer; a click farther away appends the click position to the buffer
\* and leaves the collection as it was.
C6_PolygonClose ==
    [][ (ClickEnds /\ circles # << >>)
        => IF Dist2(circles[1], mouse) <= radius * radius
           THEN /\ Len(geoms') = Len(geoms) + 1
                /\ geoms'[Len(geoms')].shape = "polygon"
                /\ geoms'[Len(geoms')].points = circles
                /\ \A k \in 1..Len(geoms) : geoms'[k].points = geoms[k].points
                /\ circles' = << >>
           ELSE /\ circles' = Append(circles, mouse)
                /\ geoms' = geoms ]_vars

\* the 4th click, at distance radius of the first, closed three vertices
C6_Witness ==
    /\ lastEvent = "mouseup"
    /\ mouse = Pt(3, 4)
    /\ circles = << >>
    /\ geoms # << >>
    /\ geoms[Len(geoms)].shape = "polygon"
    /\ Len(geoms[Len(geoms)].points) = 3
    /\ geoms[Len(geoms)].points[1] = Pt(0, 0)

\* C7: no sequence of pointer events appends a polygon with exactly one
\* vertex to the collection.
C7_NoSinglePointPolygon ==
    \A k \in 1..Len(geoms) :
       geoms[k].shape = "polygon" => Len(geoms[k].points) # 1


(***************************************************************************)
(* The boxes of the collection                                             *)
(***************************************************************************)
\* C2: in every state reachable by pointer events and facade operations,
\* every box of the collection has width >= 0, height >= 0 and as points the
\* corners of its rect in the order (x,y), (x+width,y), (x+width,y+height),
\* (x,y+height).
C2_BoxInvariant ==
    \A k \in 1..Len(geoms) :
       geoms[k].shape = "rectangle" =>
          LET r == geoms[k].rect IN
          /\ r.x # NaN
          /\ r.y # NaN
          /\ Ge(r.width, 0)
          /\ Ge(r.height, 0)
          /\ geoms[k].points = << Pt(r.x, r.y), Pt(r.x + r.width, r.y),
                                  Pt(r.x + r.width, r.y + r.height),
                                  Pt(r.x, r.y + r.height) >>


(***************************************************************************)
(* Canvas.delete and Canvas.setSelected with an index that names no shape  *)
(***************************************************************************)
\* C11: delete(i) and setSelected(i) with an index outside 0..length-1 end in
\* an error: they never return normally, neither without effect nor having
\* removed or selected some other shape.
C11_InvalidIndexFails ==
    [][ \A i \in EditIndices :
           (deleteOutside(i) \/ setSelectedOutside(i)) => thrown' ]_vars


(***************************************************************************)
(* Canvas.mouseup: the state it leaves                                     *)
(***************************************************************************)
\* C12: after every pointer-up, with clear(), delete(i) and setSelected(i)
\* called between the pointer events, isDraw, isDrag and isRectChange are
\* false and the anchor is (-1, -1).
C12_IdleAfterPointerUp ==
    lastEvent = "mouseup"
    => /\ ~isDraw
       /\ ~isDrag
       /\ ~isRectChange
       /\ startX = -1
       /\ startY = -1

\* C13: after every pointer-up the target shape index and the target vertex
\* index are -1 and the placement is the empty string.
C13_TargetsResetAfterPointerUp ==
    lastEvent = "mouseup"
    => /\ index = -1
       /\ circleIndex = -1
       /\ placement = ""

\* C14: after a pointer-up during which a notification callback threw,
\* isDraw, isDrag and isRectChange are false and the anchor is (-1, -1).
C14_ResetDespiteCallback ==
    (/\ lastEvent = "mouseup"
     /\ fired # << >>
     /\ fired[Len(fired)].cb = "exception")
    => /\ ~isDraw
       /\ ~isDrag
       /\ ~isRectChange
       /\ startX = -1
       /\ startY = -1


(***************************************************************************)
(* The notifications                                                       *)
(***************************************************************************)
\* C15: when a draw gesture commits a box or a polygon, the new shape is, at
\* the moment onEnd is called, the last of the collection and the only one
\* whose selected flag is set.
C15_SelectedWhenDrawEnds ==
    \A k \in 1..Len(fired) :
       fired[k].cb = "onEnd"
       => LET flags == fired[k].arg
          IN  /\ Len(flags) = Len(geoms)
              /\ \A j \in 1..Len(flags) : flags[j] <=> (j = Len(flags))


(***************************************************************************)
(* The length and the order of the collection                              *)
(***************************************************************************)
\* what tells the shapes of a collection apart when their geometry and their
\* selected flags change: the kind and the color of each, in order
Kinds(gs) == [k \in 1..Len(gs) |-> << gs[k].shape, gs[k].color >>]

C17_StartOnFirstMove ==
    [][ ( /\ lastEvent = "mousedown"
          /\ cursor = "crosshair"
          /\ isDraw
          /\ circles = << >>
          /\ lastEvent' = "mousemove"
          /\ (mouse'.x # startX \/ mouse'.y # startY) )
        => ( /\ fired' # << >>
             /\ fired'[1] = Note("onStart", "rectangle") ) ]_vars

\* C18: whenever a click starts the polygon buffer (from empty to one point),
\* onStart(polygon) fires in that pointer-up, whatever pointer-moves the
\* gesture held.
C18_StartOnFirstPoint ==
    [][ ( /\ lastEvent' = "mouseup"
          /\ circles = << >>
          /\ circles' # << >> )
        => \E k \in 1..Len(fired') : fired'[k] = Note("onStart", "polygon") ]_vars


(***************************************************************************)
(* Clicks on a shape                                                       *)
(***************************************************************************)
\* C19: when a gesture begun on an existing shape (a body drag, a vertex drag
\* or a resize) ends in a pointer-up at the position of its pointer-down,
\* that shape becomes the only selected one and onClick fires once, with its
\* index; at any other position of the pointer-up no onClick fires and no
\* selected flag changes.
C19_ClickSelects ==
    [][ ( /\ lastEvent' = "mouseup"
          /\ isDrag \/ isRectChange
          /\ HasGeom(geoms, index) )
        => IF mouse.x = startX /\ mouse.y = startY
           THEN /\ Flags(geoms') = [k \in 1..Len(geoms) |-> k = index + 1]
                /\ fired' = << Note("onClick", index) >>
           ELSE /\ Flags(geoms') = Flags(geoms)
                /\ \A k \in 1..Len(fired') : fired'[k].cb # "onClick" ]_vars

\* a click on the first of two shapes, the second of which was selected
C19_Witness ==
    /\ lastEvent = "mouseup"
    /\ fired = << Note("onClick", 0) >>
    /\ Len(geoms) = 2
    /\ geoms[1].selected
    /\ ~geoms[2].selected


(***************************************************************************)
(* clear()                                                                 *)
(***************************************************************************)
\* C20: after clear() the collection and the buffer are empty, the transient
\* fields are neutral, and a pointer-down that follows clear() at once enters
\* neither the drag nor the resize mode.
C20_NeutralAfterClear ==
    [][ /\ lastEvent' = "clear"
           => /\ geoms' = << >> /\ circles' = << >>
              /\ ~isDraw' /\ ~isDrag' /\ ~isRectChange'
              /\ startX' = -1 /\ startY' = -1
              /\ index' = -1 /\ circleIndex' = -1 /\ placement' = ""
        /\ (lastEvent = "clear" /\ lastEvent' = "mousedown")
           => ~isDrag' /\ ~isRectChange' ]_vars


(***************************************************************************)
(* The snapshot of a resize gesture                                        *)
(***************************************************************************)
\* the rect the target has after a gesture of one pointer-move, from the
\* pointer-down position straight to the pointer's position: rectResize reads
\* the snapshot as the live rect, and the movement is the whole way
DirectRect ==
    LET g == [geoms[index + 1] EXCEPT !.rect = oldRect]
        d == rectResize(<< g >>, 0, placement, oldRect, mouse,
                        mouse.x - startX, mouse.y - startY, cursor)
    IN  d.geoms[1].rect

\* C21: within one resize gesture the box's rect after each pointer-move is a
\* function of the snapshot, the pointer-down position and the pointer's
\* position only: it is the rect the gesture that goes there in one move
\* produces, whatever positions were visited in between.
C21_NoDrift ==
    Resized => geoms[index + 1].rect = DirectRect


(***************************************************************************)
(* The corner placements of rectResize                                     *)
(***************************************************************************)
CornerPlacements == {"right-bottom", "right-top", "left-bottom", "left-top"}

\* the corner of the snapshot that the placement pl holds fixed
AnchorCorner(pl, old) ==
    Pt(IF pl \in {"right-bottom", "right-top"} THEN old.x ELSE old.x + old.width,
       IF pl \in {"right-bottom", "left-bottom"} THEN old.y ELSE old.y + old.height)

\* the pointer e is on the east side of the anchor of pl (the anchor itself
\* counts to the side the grabbed corner is on)
EastOfAnchor(pl, old, e) ==
    IF pl \in {"right-bottom", "right-top"} THEN e.x >= old.x
    ELSE e.x > old.x + old.width

\* the pointer e is on the south side of the anchor of pl
SouthOfAnchor(pl, old, e) ==
    IF pl \in {"right-bottom", "left-bottom"} THEN e.y >= old.y
    ELSE e.y > old.y + old.height

\* the diagonal cursor for a pointer on the given sides of the anchor
Diagonal(east, south) ==
    CASE south /\ east -> "se-resize"
      [] south /\ ~east -> "sw-resize"
      [] ~south /\ east -> "ne-resize"
      [] OTHER -> "nw-resize"

\* C22: on every pointer-move of a resize gesture with a corner placement
\* exactly one of the four sub-branches applies; the cursor it leaves is the
\* diagonal for the side of the snapshot's anchor the pointer is on, on each
\* axis, and the box keeps a corner at the snapshot's anchor corner.
C22_CornerBranches ==
    [][ ( /\ isRectChange /\ ~isDrag /\ ~isDraw /\ circles = << >>
          /\ placement \in CornerPlacements
          /\ HasGeom(geoms, index)
          /\ geoms[index + 1].shape = "rectangle"
          /\ lastEvent' = "mousemove" )
        => LET e  == mouse'
               bs == ResizeBranches(placement, oldRect, geoms[index + 1].rect, e,
                                    e.x - mouse.x, e.y - mouse.y)
               a  == AnchorCorner(placement, oldRect)
               r  == geoms'[index + 1].rect
           IN  /\ Cardinality({k \in 1..Len(bs) : bs[k].cond}) = 1
               /\ cursor' = Diagonal(EastOfAnchor(placement, oldRect, e),
                                     SouthOfAnchor(placement, oldRect, e))
               /\ a.x \in {r.x, r.x + r.width}
               /\ a.y \in {r.y, r.y + r.height} ]_vars

\* the top left corner was dragged beyond the bottom right corner, which
\* stayed where it was
C22_Witness ==
    /\ Resized
    /\ placement = "left-top"
    /\ oldRect = [x |-> 0, y |-> 0, width |-> 100, height |-> 50]
    /\ mouse = Pt(150, 75)
    /\ cursor = "se-resize"
    /\ geoms[1].rect = [x |-> 100, y |-> 50, width |-> 50, height |-> 25]


(***************************************************************************)
(* The zones of the hit test                                               *)
(***************************************************************************)
\* the pointer-move that is about to happen runs the hit test
Hovers ==
    /\ lastEvent' = "mousemove"
    /\ ~isDraw /\ ~isDrag /\ ~isRectChange
    /\ circles = << >>

\* C23: for every box and every pointer position the hit test is run for,
\* the pointer satisfies the condition of at most one of the nine zones.
C23_ZonesExclusive ==
    [][ Hovers
        => \A k \in 1..Len(geoms) :
              geoms[k].shape = "rectangle"
              => Cardinality({z \in 1..9 :
                     InZone(z, geoms[k].rect, mouse'.x, mouse'.y)}) <= 1 ]_vars

\* the vertices (0-based) of the polygon g within the radius of p
NearVertices(g, p) ==
    {j \in 0..(Len(g.points) - 1) : Dist2(p, g.points[j + 1]) < radius * radius}

\* C24: when the hit test resolves to a polygon and the pointer is within
\* the radius of one of its vertices, it resolves to the vertex affordance
\* (cursor default) with the lowest such vertex, also for a pointer inside
\* the polygon; the body affordance (cursor move, no vertex) is resolved only
\* for a pointer within the radius of none of its vertices.
C24_VertexBeforeBody ==
    [][ ( /\ Hovers
          /\ HasGeom(geoms, index')
          /\ geoms[index' + 1].shape = "polygon" )
        => LET near == NearVertices(geoms[index' + 1], mouse')
           IN  IF near # {}
               THEN /\ cursor' = "default"
                    /\ circleIndex' \in near
                    /\ \A j \in near : circleIndex' <= j
               ELSE /\ cursor' = "move"
                    /\ circleIndex' = -1 ]_vars


(***************************************************************************)
(* Invariants of the editor                                                *)
(***************************************************************************)
\* C25: after every pointer-up, when no gesture is active, no box of the
\* collection has zero width or zero height.
C25_NoDegenerateBox ==
    ( /\ lastEvent = "mouseup"
      /\ ~isDraw /\ ~isDrag /\ ~isRectChange )
    => \A k \in 1..Len(geoms) :
          geoms[k].shape = "rectangle"
          => geoms[k].rect.width # 0 /\ geoms[k].rect.height # 0

\* the indices (1-based) of the shapes whose selected flag is set
SelectedOnes(gs) == {k \in 1..Len(gs) : gs[k].selected}

\* C26: in every state reached through pointer events, clear, delete and
\* setSelected from an empty editor, at most one shape of the collection has
\* its selected flag set.
C26_AtMostOneSelected ==
    Cardinality(SelectedOnes(geoms)) <= 1

\* a third shape was committed while the first was the selected one: the new
\* shape alone is selected
C26_Witness ==
    /\ lastEvent = "mouseup"
    /\ Len(geoms) = 3
    /\ SelectedOnes(geoms) = {3}
    /\ fired # << >>
    /\ fired[Len(fired)].cb = "onEnd"
    /\ Len(fired[Len(fired)].arg) = 3

\* C27: whenever a drag or resize mode is active, the target index addresses
\* a shape of the collection, the target of a resize is a box, and a vertex
\* index that is not negative is one of the target polygon's vertices; no
\* pointer event ends in the dereference of a missing shape.
C27_TargetExists ==
    /\ (isDrag \/ isRectChange)
       => /\ HasGeom(geoms, index)
          /\ isRectChange => geoms[index + 1].shape = "rectangle"
          /\ circleIndex >= 0
             => /\ geoms[index + 1].shape = "polygon"
                /\ circleIndex < Len(geoms[index + 1].points)
    /\ lastEvent \in {"mousedown", "mousemove", "mouseup"} => ~thrown

\* C28: in every reachable state at most one of the mode flags isDraw,
\* isDrag and isRectChange is set, also when pointer-downs arrive with no
\* pointer-up between them.
C28_OneMode ==
    /\ ~(isDraw /\ isDrag)
    /\ ~(isDraw /\ isRectChange)
    /\ ~(isDrag /\ isRectChange)

\* a pointer-down in resize mode on a box that a resize has narrowed before:
\* the snapshot is taken anew
C28_Witness ==
    /\ lastEvent = "mousedown"
    /\ isRectChange
    /\ HasGeom(geoms, index)
    /\ oldRect = geoms[index + 1].rect
    /\ oldRect.width = 10


(***************************************************************************)
(* The polygon phase                                                       *)
(***************************************************************************)
\* the shapes without their selected flags
Geometry(gs) == [k \in 1..Len(gs) |-> [gs[k] EXCEPT !.selected = FALSE]]

\* C29: while the polygon buffer is not empty the cursor is crosshair, and a
\* pointer event runs no hit test (cursor, target and placement stay), keeps
\* the border colour, changes the geometry of no committed shape and appends
\* no box: all it does to the collection is to append the closed polygon,
\* in the border colour.
C29_PolygonPhase ==
    [][ circles # << >>
        => /\ cursor = "crosshair"
           /\ lastEvent' \in {"mousedown", "mousemove", "mouseup"}
              => /\ cursor' = cursor
                 /\ index' = index
                 /\ circleIndex' = circleIndex
                 /\ placement' = placement
                 /\ borderColor' = borderColor
                 /\ Len(geoms') >= Len(geoms)
                 /\ Geometry(SubSeq(geoms', 1, Len(geoms))) = Geometry(geoms)
                 /\ Len(geoms') > Len(geoms)
                    => /\ Len(geoms') = Len(geoms) + 1
                       /\ lastEvent' = "mouseup"
                       /\ geoms'[Len(geoms')].shape = "polygon"
                       /\ geoms'[Len(geoms')].points = circles
                       /\ geoms'[Len(geoms')].color = borderColor
                       /\ circles' = << >> ]_vars

\* the pointer is moving with the button down while the buffer holds two
\* points
C29_Witness ==
    /\ lastEvent = "mousemove"
    /\ isDraw
    /\ Len(circles) = 2
    /\ mouse # Pt(startX, startY)
    /\ fired = << Note("onDrawing", "") >>


(***************************************************************************)
(* The extent of a box in the hit test                                     *)
(***************************************************************************)
\* p lies in the closed rectangle [x, x + width] x [y, y + height] of r
InsideRect(r, p) ==
    /\ r.x <= p.x /\ p.x <= r.x + r.width
    /\ r.y <= p.y /\ p.y <= r.y + r.height

\* C30: the hit test resolves to a box exactly when the pointer lies within
\* the box's closed rectangle and no earlier shape matched: outside its
\* rectangle a box is never the target, inside one of its zones matches.
C30_HitInsideOnly ==
    [][ Hovers
        => \A i \in 0..(Len(geoms) - 1) :
              ( /\ geoms[i + 1].shape = "rectangle"
                /\ ~(0 <= index' /\ index' < i) )
              => (index' = i <=> InsideRect(geoms[i + 1].rect, mouse')) ]_vars

====
